---- MODULE Spec2Model ----
(***************************************************************************)
(* Model of the horse-racing bet "points" calculator:                      *)
(*   - the combinatorics core and the BOX / nagashi points calculators     *)
(*     (utils/betCalculations.ts, unmemoized and memoized revisions),      *)
(*   - the history store and its debounced HistoryManager                  *)
(*     (utils/historyStorage.ts, both revisions).                          *)
(***************************************************************************)
EXTENDS Integers, Sequences, FiniteSets, TLC

VARIABLES
    \* ---- calculation engine ----
    call,               \* the last call made: function name and arguments
    result,             \* what that call returned
    combinationCache,   \* Map<string, number> of the memoized combination
    permutationCache,   \* Map<string, number> of the memoized permutation
    boxPointsCache,     \* Map<string, number> of the memoized calculateBoxPoints
    keyArgs,            \* ghost: cache key -> the argument tuples that produced it
    calls,              \* ghost: number of box-cache misses so far
    horsePool,          \* the horse counts the session's calls draw from
    \* ---- history store ----
    impl,               \* revision of historyStorage loaded: "array" or "map"
    recordType,         \* the calculation mode the session's records have
    storage,            \* localStorage's value under STORAGE_KEY
    nextId,             \* ids handed out so far (generateHistoryId)
    op,                 \* the operation performed last
    returned,           \* what the last getHistory call returned
    threw,              \* whether the last operation let an exception escape
    fault,              \* the storage failures the last operation met
    \* ---- HistoryManager and its host environment ----
    writeTimeout,       \* handle of the debounce timer, 0 for null
    pendingWrite,       \* record waiting for the debounce, NoRecord for null
    timers,             \* live debounce timers, oldest first
    nextTimer,          \* timer handles handed out so far
    deferred,           \* queued doWrite callbacks (idle or zero-delay), oldest first
    hasIdle,            \* whether window.requestIdleCallback exists
    \* ---- ghosts ----
    saved,              \* records passed to saveHistory since storage was last empty
    scheduled,          \* ids passed to scheduleSave, in call order
    burst,              \* ids scheduled since flushWrite last ran
    burstLasts,         \* the last id of every burst that a flushWrite ended
    replaced,           \* ids replaced by a later scheduleSave of their burst
    writeLog,           \* ids handed to writeToStorage, in call order
    syncStorage,        \* storage, had every writeToStorage written at once
    flushedAtOnce       \* id flushed by a flushWrite right after its scheduleSave

calcVars == <<call, result, combinationCache, permutationCache, boxPointsCache,
              keyArgs, calls, horsePool>>

storeVars == <<impl, recordType, storage, nextId, op, returned, threw, fault, saved>>

managerVars == <<writeTimeout, pendingWrite, timers, nextTimer, deferred, hasIdle,
                 scheduled, burst, burstLasts, replaced, writeLog, syncStorage,
                 flushedAtOnce>>

vars == <<call, result, combinationCache, permutationCache, boxPointsCache,
          keyArgs, calls, horsePool,
          impl, recordType, storage, nextId, op, returned, threw, fault, saved,
          writeTimeout, pendingWrite, timers, nextTimer, deferred, hasIdle,
          scheduled, burst, burstLasts, replaced, writeLog, syncStorage,
          flushedAtOnce>>

-----------------------------------------------------------------------------
(* Bounds and program constants *)

\* most box-cache misses (cache insertions) in one behaviour
MaxCalls == 2

\* getMaximumHorseCount: the field-size ceiling
MaxHorseCount == 18

\* most records created in one behaviour of the store alone
MaxSaves == 52

\* most records created in one behaviour of the debounced manager
MaxRecords == 3

\* 最大保存件数
MAX_HISTORY_COUNT == 50

-----------------------------------------------------------------------------
(* Bet types *)

\* BET_TYPES ids
BET_TYPES == {"tansho", "fukusho", "wakuren", "umaren", "umatan", "wide",
              "sanrenpuku", "sanrentan"}

\* identifiers that are not rows of the table (betTypeId is any string)
UnknownBetTypes == {"w", "w_1"}

BetTypeIds == BET_TYPES \cup UnknownBetTypes

\* horse counts the calls are made with: -1 .. 18
HorseCounts == (0 - 1) .. MaxHorseCount

-----------------------------------------------------------------------------
(* Combinatorics core, unmemoized revision *)

\* Math.floor of a non-negative rational <<numerator, denominator>>
MathFloor(q) == q[1] \div q[2]

\* the for-loop of combination: result = (result * (n - i)) / (i + 1).
\* The JS number is kept as an exact rational; every intermediate value here
\* is an integer below 2^53, so the double arithmetic is exact.
RECURSIVE combinationLoop(_, _, _, _)
combinationLoop(n, r, i, res) ==
    IF i < r
    THEN combinationLoop(n, r, i + 1, <<res[1] * (n - i), res[2] * (i + 1)>>)
    ELSE res

\* a slip: dividing before multiplying, truncating every step
combinationDivFirst(n, r) ==
    IF r > n \/ r < 0 THEN 0
    ELSE IF r = 0 \/ r = n THEN 1
    ELSE LET step[i \in 0..r] ==
                 IF i = 0 THEN 1 ELSE (step[i - 1] \div i) * (n - (i - 1))
         IN  step[r]

combination(n, r) ==
    IF r > n \/ r < 0 THEN 0
    ELSE IF r = 0 \/ r = n THEN 1
    ELSE MathFloor(combinationLoop(n, r, 0, <<1, 1>>))

\* the for-loop of permutation: result *= n - i
RECURSIVE permutationLoop(_, _, _, _)
permutationLoop(n, r, i, res) ==
    IF i < r THEN permutationLoop(n, r, i + 1, res * (n - i)) ELSE res

\* a slip: the loop bound taken inclusive (i <= r)
permutationInclusive(n, r) ==
    IF r > n \/ r < 0 THEN 0
    ELSE IF r = 0 THEN 1
    ELSE permutationLoop(n, r + 1, 0, 1)

permutation(n, r) ==
    IF r > n \/ r < 0 THEN 0
    ELSE IF r = 0 THEN 1
    ELSE permutationLoop(n, r, 0, 1)

\* calculateBoxPoints, unmemoized revision
calculateBoxPoints(betTypeId, horseCount) ==
    IF horseCount < 1 THEN 0
    ELSE CASE betTypeId \in {"tansho", "fukusho"} -> horseCount
           [] betTypeId \in {"wakuren", "umaren", "wide"} -> combination(horseCount, 2)
           [] betTypeId = "umatan" -> permutation(horseCount, 2)
           [] betTypeId = "sanrenpuku" -> combination(horseCount, 3)
           [] betTypeId = "sanrentan" -> permutation(horseCount, 3)
           [] OTHER -> 0

\* getMinimumHorseCount: the switch over the bet type, default 1
getMinimumHorseCount(betTypeId) ==
    CASE betTypeId \in {"tansho", "fukusho"} -> 1
      [] betTypeId \in {"wakuren", "umaren", "umatan", "wide"} -> 2
      [] betTypeId \in {"sanrenpuku", "sanrentan"} -> 3
      [] OTHER -> 1

\* getMaximumHorseCount: the same for every bet type
getMaximumHorseCount(betTypeId) == MaxHorseCount

\* the object returned by getBoxCalculationDetails
Details(points, formula, description, isValid) ==
    [points |-> points, formula |-> formula, description |-> description,
     isValid |-> isValid]

\* The formula and description templates of the switch.  The switch has no
\* default branch, so any other identifier keeps the two initial "" values.
\* The Japanese literals of the templates are written in romaji, one distinct
\* text per literal: 頭 is "tou", 点 is "ten", 頭から1頭を選ぶ is
\* "tou kara 1 tou wo erabu", 組み合わせ is "kumiawase", 順列（着順あり） is
\* "junretsu (chakujun ari)", 頭以上 is "tou ijou" and 頭以下で選択してください
\* is "tou ika de sentaku shite kudasai".
formulaOf(betTypeId, horseCount, points) ==
    CASE betTypeId \in {"tansho", "fukusho"} ->
             ToString(horseCount) \o "tou = " \o ToString(points) \o "ten"
      [] betTypeId \in {"wakuren", "umaren", "wide"} ->
             ToString(horseCount) \o "C2 = " \o ToString(points) \o "ten"
      [] betTypeId = "umatan" ->
             ToString(horseCount) \o "P2 = " \o ToString(points) \o "ten"
      [] betTypeId = "sanrenpuku" ->
             ToString(horseCount) \o "C3 = " \o ToString(points) \o "ten"
      [] betTypeId = "sanrentan" ->
             ToString(horseCount) \o "P3 = " \o ToString(points) \o "ten"
      [] OTHER -> ""

descriptionOf(betTypeId, horseCount) ==
    CASE betTypeId \in {"tansho", "fukusho"} ->
             ToString(horseCount) \o "tou kara 1 tou wo erabu"
      [] betTypeId \in {"wakuren", "umaren", "wide"} ->
             ToString(horseCount) \o "tou kara 2 tou no kumiawase"
      [] betTypeId = "umatan" ->
             ToString(horseCount) \o "tou kara 2 tou no junretsu (chakujun ari)"
      [] betTypeId = "sanrenpuku" ->
             ToString(horseCount) \o "tou kara 3 tou no kumiawase"
      [] betTypeId = "sanrentan" ->
             ToString(horseCount) \o "tou kara 3 tou no junretsu (chakujun ari)"
      [] OTHER -> ""

\* getBoxCalculationDetails: the range check with its early return, then the
\* points of calculateBoxPoints and the strings of the switch
getBoxCalculationDetails(betTypeId, horseCount) ==
    LET minCount == getMinimumHorseCount(betTypeId)
        maxCount == getMaximumHorseCount(betTypeId)
        points == calculateBoxPoints(betTypeId, horseCount)
    IN  IF horseCount < minCount \/ horseCount > maxCount
        THEN Details(0, "",
                     ToString(minCount) \o "tou ijou" \o ToString(maxCount)
                         \o "tou ika de sentaku shite kudasai",
                     FALSE)
        ELSE Details(points,
                     formulaOf(betTypeId, horseCount, points),
                     descriptionOf(betTypeId, horseCount),
                     TRUE)

-----------------------------------------------------------------------------
(* Nagashi calculator.  The return value is a JS number or a {normal, multi}  *)
(* object; the shape is kept as a tag.                                        *)

Num(n) == [shape |-> "number", value |-> n, normal |-> 0, multi |-> 0]
NormalMulti(n, m) == [shape |-> "object", value |-> 0, normal |-> n, multi |-> m]

calculateNagashiPoints(betTypeId, axisCount, opponentCount, isMulti) ==
    IF axisCount < 1 \/ opponentCount < 1 THEN Num(0)
    ELSE CASE betTypeId \in {"wakuren", "umaren", "wide"} ->
                IF axisCount = 1 THEN Num(opponentCount)
                ELSE IF axisCount = 2 THEN Num(combination(axisCount, 2) * opponentCount)
                ELSE Num(0)
           [] betTypeId = "umatan" ->
                IF axisCount = 1
                THEN IF isMulti THEN NormalMulti(opponentCount, opponentCount * 2)
                     ELSE Num(opponentCount)
                ELSE IF axisCount = 2
                THEN LET axisPerm == permutation(axisCount, 2)
                     IN  IF isMulti
                         THEN NormalMulti(axisPerm * opponentCount,
                                          axisPerm * opponentCount * 2)
                         ELSE Num(axisPerm * opponentCount)
                ELSE Num(0)
           [] betTypeId = "sanrenpuku" ->
                IF axisCount = 1 THEN Num(combination(opponentCount, 2))
                ELSE IF axisCount = 2 THEN Num(opponentCount)
                ELSE Num(0)
           [] betTypeId = "sanrentan" ->
                IF axisCount = 1
                THEN IF isMulti
                     THEN LET normal == permutation(opponentCount, 2)
                          IN  NormalMulti(normal, normal * 2)
                     ELSE Num(permutation(opponentCount, 2))
                ELSE IF axisCount = 2
                THEN IF isMulti THEN NormalMulti(opponentCount, opponentCount * 2)
                     ELSE Num(opponentCount)
                ELSE Num(0)
           [] OTHER -> Num(0)

-----------------------------------------------------------------------------
(* Memoized revision of the combinatorics core and of calculateBoxPoints.   *)
(* A Map<string, number> is a function whose domain is the set of its keys. *)

EmptyMap == [k \in {} |-> 0]

MapSet(map, key, value) == [k \in DOMAIN map \cup {key} |->
                               IF k = key THEN value ELSE map[k]]

\* Array.prototype.join('_') over the already stringified arguments
RECURSIVE JoinUnderscore(_)
JoinUnderscore(args) ==
    IF Len(args) = 0 THEN ""
    ELSE IF Len(args) = 1 THEN args[1]
    ELSE args[1] \o "_" \o JoinUnderscore(Tail(args))

\* a slip: the key built from the first and the last argument only
getCacheKeyFirstLast(args) == args[1] \o "_" \o args[Len(args)]

\* getCacheKey(...args): args.join('_'); numbers are stringified by ToString
getCacheKey(args) == JoinUnderscore(args)

\* the argument tuple a key was built from (ghost bookkeeping)
ArgTuple(cache, bet, n, r) == [cache |-> cache, bet |-> bet, n |-> n, r |-> r]

\* Each memoized function returns its value, the cache after the call, whether
\* the cache served the call, and the keys it built (with their arguments).
Uncached(v, cache) == [ret |-> v, cache |-> cache, hit |-> FALSE, touched |-> {}]

combinationMemo(cache, n, r) ==
    IF r > n \/ r < 0 THEN Uncached(0, cache)
    ELSE IF r = 0 \/ r = n THEN Uncached(1, cache)
    ELSE LET cacheKey == getCacheKey(<<"C", ToString(n), ToString(r)>>)
             touched == {<<cacheKey, ArgTuple("C", "", n, r)>>}
         IN  IF cacheKey \in DOMAIN cache
             THEN [ret |-> cache[cacheKey], cache |-> cache, hit |-> TRUE,
                   touched |-> touched]
             ELSE LET finalResult == MathFloor(combinationLoop(n, r, 0, <<1, 1>>))
                  IN  [ret |-> finalResult,
                       cache |-> MapSet(cache, cacheKey, finalResult),
                       hit |-> FALSE, touched |-> touched]

permutationMemo(cache, n, r) ==
    IF r > n \/ r < 0 THEN Uncached(0, cache)
    ELSE IF r = 0 THEN Uncached(1, cache)
    ELSE LET cacheKey == getCacheKey(<<"P", ToString(n), ToString(r)>>)
             touched == {<<cacheKey, ArgTuple("P", "", n, r)>>}
         IN  IF cacheKey \in DOMAIN cache
             THEN [ret |-> cache[cacheKey], cache |-> cache, hit |-> TRUE,
                   touched |-> touched]
             ELSE LET res == permutationLoop(n, r, 0, 1)
                  IN  [ret |-> res, cache |-> MapSet(cache, cacheKey, res),
                       hit |-> FALSE, touched |-> touched]

\* calculateBoxPoints, memoized revision, on the three caches
\* caches = [C |-> combinationCache, P |-> permutationCache, box |-> boxPointsCache]
calculateBoxPointsMemo(caches, betTypeId, horseCount) ==
    IF horseCount < 1
    THEN [ret |-> 0, caches |-> caches, hit |-> "early", touched |-> {}]
    ELSE LET cacheKey == getCacheKey(<<"box", betTypeId, ToString(horseCount)>>)
             own == {<<cacheKey, ArgTuple("box", betTypeId, horseCount, 0)>>}
         IN  IF cacheKey \in DOMAIN caches.box
             THEN [ret |-> caches.box[cacheKey], caches |-> caches, hit |-> "box",
                   touched |-> own]
             ELSE LET none == Uncached(0, EmptyMap)
                      c == CASE betTypeId \in {"wakuren", "umaren", "wide"} ->
                                   combinationMemo(caches.C, horseCount, 2)
                             [] betTypeId = "sanrenpuku" ->
                                   combinationMemo(caches.C, horseCount, 3)
                             [] OTHER -> Uncached(0, caches.C)
                      p == CASE betTypeId = "umatan" ->
                                   permutationMemo(caches.P, horseCount, 2)
                             [] betTypeId = "sanrentan" ->
                                   permutationMemo(caches.P, horseCount, 3)
                             [] OTHER -> Uncached(0, caches.P)
                      res == CASE betTypeId \in {"tansho", "fukusho"} -> horseCount
                               [] betTypeId \in {"wakuren", "umaren", "wide",
                                                 "sanrenpuku"} -> c.ret
                               [] betTypeId \in {"umatan", "sanrentan"} -> p.ret
                               [] OTHER -> 0
                  IN  [ret |-> res,
                       caches |-> [C |-> c.cache, P |-> p.cache,
                                   box |-> MapSet(caches.box, cacheKey, res)],
                       hit |-> IF c.hit THEN "C" ELSE IF p.hit THEN "P" ELSE "miss",
                       touched |-> own \cup c.touched \cup p.touched]

-----------------------------------------------------------------------------
(* Calls of the calculation engine *)

NoCall == [fn |-> "none", betTypeId |-> "", horseCount |-> 0, axisCount |-> 0,
           opponentCount |-> 0, isMulti |-> FALSE, hit |-> "none"]

\* keyArgs after a call that built the keys in `touched`
Remember(ka, touched) ==
    [k \in DOMAIN ka \cup {t[1] : t \in touched} |->
        (IF k \in DOMAIN ka THEN ka[k] ELSE {})
            \cup {t[2] : t \in {u \in touched : u[1] = k}}]

\* a call of the unmemoized calculateBoxPoints
CallCalculateBoxPoints ==
    \E betTypeId \in BetTypeIds, horseCount \in horsePool :
        /\ call' = [NoCall EXCEPT !.fn = "calculateBoxPoints",
                                  !.betTypeId = betTypeId,
                                  !.horseCount = horseCount]
        /\ result' = Num(calculateBoxPoints(betTypeId, horseCount))
        /\ UNCHANGED <<combinationCache, permutationCache, boxPointsCache,
                       keyArgs, calls, horsePool>>
        /\ UNCHANGED storeVars
        /\ UNCHANGED managerVars

\* a call of getBoxCalculationDetails
CallGetBoxCalculationDetails ==
    \E betTypeId \in BetTypeIds, horseCount \in horsePool :
        /\ call' = [NoCall EXCEPT !.fn = "getBoxCalculationDetails",
                                  !.betTypeId = betTypeId,
                                  !.horseCount = horseCount]
        /\ result' = getBoxCalculationDetails(betTypeId, horseCount)
        /\ UNCHANGED <<combinationCache, permutationCache, boxPointsCache,
                       keyArgs, calls, horsePool>>
        /\ UNCHANGED storeVars
        /\ UNCHANGED managerVars

\* a call of the memoized calculateBoxPoints
CallCalculateBoxPointsMemo ==
    \E betTypeId \in BetTypeIds, horseCount \in horsePool :
        LET out == calculateBoxPointsMemo(
                       [C |-> combinationCache, P |-> permutationCache,
                        box |-> boxPointsCache], betTypeId, horseCount)
            inserted == out.hit \in {"miss", "C", "P"}
        IN  /\ inserted => calls < MaxCalls
            /\ call' = [NoCall EXCEPT !.fn = "calculateBoxPointsMemo",
                                      !.betTypeId = betTypeId,
                                      !.horseCount = horseCount,
                                      !.hit = out.hit]
            /\ result' = Num(out.ret)
            /\ combinationCache' = out.caches.C
            /\ permutationCache' = out.caches.P
            /\ boxPointsCache' = out.caches.box
            /\ keyArgs' = Remember(keyArgs, out.touched)
            /\ calls' = IF inserted THEN calls + 1 ELSE calls
            /\ UNCHANGED horsePool
            /\ UNCHANGED storeVars
            /\ UNCHANGED managerVars

\* a call of calculateNagashiPoints (isMulti defaults to false)
CallCalculateNagashiPoints ==
    \E betTypeId \in BetTypeIds, axisCount \in 0..3,
       opponentCount \in 0..MaxHorseCount, isMulti \in BOOLEAN :
        /\ call' = [NoCall EXCEPT !.fn = "calculateNagashiPoints",
                                  !.betTypeId = betTypeId,
                                  !.axisCount = axisCount,
                                  !.opponentCount = opponentCount,
                                  !.isMulti = isMulti]
        /\ result' = calculateNagashiPoints(betTypeId, axisCount, opponentCount,
                                            isMulti)
        /\ UNCHANGED <<combinationCache, permutationCache, boxPointsCache,
                       keyArgs, calls, horsePool>>
        /\ UNCHANGED storeVars
        /\ UNCHANGED managerVars

-----------------------------------------------------------------------------
(* History store.  A record is kept by its id, its mode and the shape of its *)
(* selections field: absent ("none"), an array of [position, horses] pairs   *)
(* ("array"), a Map ("map") or a plain object ("object").                     *)

NoRecord == [id |-> 0, type |-> "none", selections |-> "none"]

\* the record the UI builds for a calculation: formation records carry
\* selections, in the shape the loaded revision's interface declares
MakeRecord(id, type, revision) ==
    [id |-> id, type |-> type,
     selections |-> IF type = "formation"
                    THEN (IF revision = "map" THEN "map" ELSE "array")
                    ELSE "none"]

\* values under STORAGE_KEY: no item, the empty string, text that is not
\* JSON, JSON that is not an array, or the JSON text of an array of records
Absent == [kind |-> "absent", items |-> <<>>]
EmptyText == [kind |-> "empty", items |-> <<>>]
CorruptText == [kind |-> "corrupt", items |-> <<>>]
NonArrayJson == [kind |-> "nonarray", items |-> <<>>]
ArrayJson(items) == [kind |-> "array", items |-> items]

\* JSON.stringify of one record: a Map has no own enumerable properties and
\* is written as {}, an undefined field is left out
StringifyRecord(rec) ==
    [rec EXCEPT !.selections = IF @ = "map" THEN "object" ELSE @]

\* JSON.parse of one record: arrays and objects come back as they were written
ParseRecord(json) == json

\* JSON.stringify / JSON.parse of an array of records
StringifyAll(list) == [i \in 1..Len(list) |-> StringifyRecord(list[i])]

ParseAll(items) == [i \in 1..Len(items) |-> ParseRecord(items[i])]

\* getHistory of the "map" revision, lines 37-46: array selections become a Map
RestoreMap(item) ==
    [item EXCEPT !.selections = IF @ = "array" THEN "map" ELSE @]

\* saveHistory of the "map" revision, lines 69-75: a Map becomes its entries
SerializeItem(item) ==
    [item EXCEPT !.selections = IF @ = "map" THEN "array" ELSE @]

\* history.map(...) of getHistory and allHistory.map(...) of saveHistory
RestoreAll(list) == [i \in 1..Len(list) |-> RestoreMap(list[i])]

SerializeAll(list) == [i \in 1..Len(list) |-> SerializeItem(list[i])]

\* outcomes of a function body: a value, or an exception on its way out
Value(isList, list) == [exc |-> FALSE, isList |-> isList, list |-> list]
Exception == [exc |-> TRUE, isList |-> FALSE, list |-> <<>>]

\* the try block of getHistory
getHistoryTry(revision, stored, getItemThrows) ==
    IF getItemThrows THEN Exception
    ELSE IF stored.kind \in {"absent", "empty"} THEN Value(TRUE, <<>>)    \* !stored
    ELSE IF stored.kind = "corrupt" THEN Exception                       \* JSON.parse
    ELSE IF stored.kind = "nonarray"
    THEN (IF revision = "map" THEN Exception      \* history.map is not a function
          ELSE Value(FALSE, <<>>))                \* returned as parsed
    ELSE LET history == ParseAll(stored.items)
         IN  IF revision = "map" THEN Value(TRUE, RestoreAll(history))
             ELSE Value(TRUE, history)

\* a slip: getHistory without its catch
getHistoryNoCatch(revision, stored, getItemThrows) ==
    getHistoryTry(revision, stored, getItemThrows)

\* getHistory: the catch logs and returns []
getHistory(revision, stored, getItemThrows) ==
    LET t == getHistoryTry(revision, stored, getItemThrows)
    IN  IF t.exc THEN Value(TRUE, <<>>) ELSE t

\* allHistory.unshift(history)
Unshift(list, x) == <<x>> \o list

\* a slip: the last MAX entries kept, so the newest are dropped
SpliceDropsNewest(list, n) ==
    IF Len(list) > n THEN SubSeq(list, Len(list) - n + 1, Len(list)) ELSE list

\* if (allHistory.length > MAX) allHistory.splice(MAX): the first MAX stay
Splice(list, n) == IF Len(list) > n THEN SubSeq(list, 1, n) ELSE list

\* outcome of a write path: the storage afterwards, or an exception
Stored(s) == [exc |-> FALSE, storage |-> s]
WriteException(s) == [exc |-> TRUE, storage |-> s]

\* the try block shared by saveHistory and the manager's doWrite
saveHistoryTry(revision, stored, history, getItemThrows, setItemThrows) ==
    LET got == getHistory(revision, stored, getItemThrows)
    IN  IF got.exc THEN WriteException(stored)
        ELSE IF ~got.isList THEN WriteException(stored)   \* unshift is not a function
        ELSE LET allHistory == Splice(Unshift(got.list, history), MAX_HISTORY_COUNT)
                 serialized == IF revision = "map"
                               THEN SerializeAll(allHistory)
                               ELSE allHistory
             IN  IF setItemThrows THEN WriteException(stored)
                 ELSE Stored(ArrayJson(StringifyAll(serialized)))

\* saveHistory: the catch logs and returns
saveHistory(revision, stored, history, getItemThrows, setItemThrows) ==
    LET t == saveHistoryTry(revision, stored, history, getItemThrows, setItemThrows)
    IN  IF t.exc THEN Stored(stored) ELSE t

\* the doWrite closure of HistoryManager.writeToStorage ("array" revision)
doWrite(stored, history, getItemThrows, setItemThrows) ==
    LET t == saveHistoryTry("array", stored, history, getItemThrows, setItemThrows)
    IN  IF t.exc THEN Stored(stored) ELSE t

\* clearHistory: localStorage.removeItem
clearHistory(stored, removeItemThrows) ==
    IF removeItemThrows THEN Stored(stored) ELSE Stored(Absent)

-----------------------------------------------------------------------------
(* HistoryManager.  Its fields and the host's timer and callback queues are  *)
(* passed as one record m = [pendingWrite, writeTimeout, timers, nextTimer,  *)
(* deferred, storage]; every method returns the record after the call and    *)
(* the records it handed to writeToStorage.                                   *)
(*                                                                            *)
(* Time is not counted.  All debounce timers have the same delay DEBOUNCE_MS, *)
(* so they expire in the order they were started: `timers` is a queue and     *)
(* only its head may fire.  "scheduleSave is called less than 600 ms after    *)
(* the previous one" is "the previous call's timer has not fired yet".        *)

Remove(list, x) == SelectSeq(list, LAMBDA y : y # x)

\* a slip: no setTimeout fallback for a host without requestIdleCallback
writeToStorageIdleOnly(m, history, idle) ==
    IF idle
    THEN [m EXCEPT !.deferred = Append(@, [via |-> "idle", history |-> history])]
    ELSE m

\* writeToStorage: the write is queued, for requestIdleCallback when the host
\* has it and for setTimeout(doWrite, 0) otherwise
writeToStorage(m, history, idle) ==
    [m EXCEPT !.deferred = Append(@, [via |-> IF idle THEN "idle" ELSE "timeout",
                                      history |-> history])]

\* a slip: an earlier pending record is kept instead of being replaced
scheduleSaveKeepsFirst(m, history) ==
    LET cleared == IF m.writeTimeout # 0 THEN Remove(m.timers, m.writeTimeout)
                   ELSE m.timers
        handle == m.nextTimer + 1
    IN  [m EXCEPT !.pendingWrite = IF @ # NoRecord THEN @ ELSE history,
                  !.timers = Append(cleared, handle),
                  !.nextTimer = handle,
                  !.writeTimeout = handle]

\* scheduleSave: clearTimeout of a handle that already fired is a no-op
scheduleSave(m, history) ==
    LET cleared == IF m.writeTimeout # 0 THEN Remove(m.timers, m.writeTimeout)
                   ELSE m.timers
        handle == m.nextTimer + 1
    IN  [m EXCEPT !.pendingWrite = history,
                  !.timers = Append(cleared, handle),
                  !.nextTimer = handle,
                  !.writeTimeout = handle]

\* a slip: pendingWrite is not reset after the write was handed over
flushWriteKeepsPending(m, idle) ==
    IF m.pendingWrite # NoRecord
    THEN [m |-> [writeToStorage(m, m.pendingWrite, idle) EXCEPT !.writeTimeout = 0],
          handed |-> <<m.pendingWrite>>]
    ELSE [m |-> m, handed |-> <<>>]

\* a slip: the write made at once instead of being queued
flushWriteSynchronous(m, idle) ==
    IF m.pendingWrite # NoRecord
    THEN [m |-> [m EXCEPT !.storage = doWrite(@, m.pendingWrite, FALSE, FALSE).storage,
                          !.pendingWrite = NoRecord,
                          !.writeTimeout = 0],
          handed |-> <<m.pendingWrite>>]
    ELSE [m |-> m, handed |-> <<>>]

\* flushWrite: the handle is forgotten, the timer itself is not cleared
flushWrite(m, idle) ==
    IF m.pendingWrite # NoRecord
    THEN [m |-> [writeToStorage(m, m.pendingWrite, idle)
                    EXCEPT !.pendingWrite = NoRecord,
                           !.writeTimeout = 0],
          handed |-> <<m.pendingWrite>>]
    ELSE [m |-> m, handed |-> <<>>]

-----------------------------------------------------------------------------
(* Operations of the history store and of the manager *)

NoFault == [getItem |-> FALSE, setItem |-> FALSE]

\* `returned` after an operation that is not getHistory
NoReturn == [isList |-> TRUE, list |-> <<>>]

Manager == [pendingWrite |-> pendingWrite, writeTimeout |-> writeTimeout,
            timers |-> timers, nextTimer |-> nextTimer, deferred |-> deferred,
            storage |-> storage]

SetManager(m) ==
    /\ pendingWrite' = m.pendingWrite
    /\ writeTimeout' = m.writeTimeout
    /\ timers' = m.timers
    /\ nextTimer' = m.nextTimer
    /\ deferred' = m.deferred
    /\ storage' = m.storage

\* storage after the records of `handed` are written at once, in order
RECURSIVE WriteAll(_, _)
WriteAll(stored, handed) ==
    IF handed = <<>> THEN stored
    ELSE WriteAll(doWrite(stored, Head(handed), FALSE, FALSE).storage, Tail(handed))

Ids(list) == [i \in 1..Len(list) |-> list[i].id]

\* a saveHistory(record) call with a fresh record
SaveHistoryStep(limit, getItemThrows, setItemThrows) ==
    /\ nextId < limit
    /\ LET history == MakeRecord(nextId + 1, recordType, impl)
           out == saveHistory(impl, storage, history, getItemThrows, setItemThrows)
       IN  /\ storage' = out.storage
           /\ threw' = out.exc
           /\ saved' = Append(saved, history)
           /\ syncStorage' = saveHistory(impl, syncStorage, history, getItemThrows,
                                         setItemThrows).storage
    /\ nextId' = nextId + 1
    /\ op' = "saveHistory"
    /\ fault' = [getItem |-> getItemThrows, setItem |-> setItemThrows]
    /\ returned' = NoReturn
    /\ UNCHANGED <<impl, recordType>>
    /\ UNCHANGED <<writeTimeout, pendingWrite, timers, nextTimer, deferred, hasIdle,
                   scheduled, burst, burstLasts, replaced, writeLog, flushedAtOnce>>
    /\ UNCHANGED calcVars

\* a getHistory() call
GetHistoryStep(getItemThrows) ==
    /\ LET out == getHistory(impl, storage, getItemThrows)
       IN  /\ returned' = [isList |-> out.isList, list |-> out.list]
           /\ threw' = out.exc
    /\ op' = "getHistory"
    /\ fault' = [getItem |-> getItemThrows, setItem |-> FALSE]
    /\ UNCHANGED <<impl, recordType, storage, nextId, saved>>
    /\ UNCHANGED managerVars
    /\ UNCHANGED calcVars

\* a clearHistory() call (the "array" revision has it)
ClearHistory ==
    /\ impl = "array"
    /\ storage' = clearHistory(storage, FALSE).storage
    /\ syncStorage' = clearHistory(syncStorage, FALSE).storage
    /\ saved' = <<>>
    /\ op' = "clearHistory"
    /\ threw' = FALSE
    /\ fault' = NoFault
    /\ returned' = NoReturn
    /\ UNCHANGED <<impl, recordType, nextId>>
    /\ UNCHANGED <<writeTimeout, pendingWrite, timers, nextTimer, deferred, hasIdle,
                   scheduled, burst, burstLasts, replaced, writeLog, flushedAtOnce>>
    /\ UNCHANGED calcVars

\* historyManager.scheduleSave(record) with a fresh record
ScheduleSave ==
    /\ impl = "array"
    /\ nextId < MaxRecords
    /\ LET history == MakeRecord(nextId + 1, recordType, impl)
       IN  /\ SetManager(scheduleSave(Manager, history))
           /\ scheduled' = Append(scheduled, history.id)
           /\ replaced' = IF burst # <<>> THEN replaced \cup {burst[Len(burst)]}
                          ELSE replaced
           /\ burst' = Append(burst, history.id)
    /\ nextId' = nextId + 1
    /\ op' = "scheduleSave"
    /\ threw' = FALSE
    /\ fault' = NoFault
    /\ returned' = NoReturn
    /\ UNCHANGED <<impl, recordType, saved, hasIdle, burstLasts, writeLog,
                   syncStorage, flushedAtOnce>>
    /\ UNCHANGED calcVars

\* what every run of flushWrite does, from a caller or from the timer
FlushEffects(m, label) ==
    LET out == flushWrite(m, hasIdle)
    IN  /\ SetManager(out.m)
        /\ writeLog' = writeLog \o Ids(out.handed)
        /\ syncStorage' = WriteAll(syncStorage, out.handed)
        /\ burstLasts' = IF burst # <<>> THEN Append(burstLasts, burst[Len(burst)])
                         ELSE burstLasts
        /\ burst' = <<>>
        /\ op' = label
        /\ threw' = FALSE
        /\ fault' = NoFault
        /\ returned' = NoReturn
        /\ UNCHANGED <<impl, recordType, nextId, saved, hasIdle, scheduled,
                       replaced>>
        /\ UNCHANGED calcVars

\* historyManager.flushWrite() called by the application
FlushWrite ==
    /\ impl = "array"
    /\ FlushEffects(Manager, "flushWrite")
    /\ flushedAtOnce' = IF op = "scheduleSave" THEN scheduled[Len(scheduled)]
                        ELSE flushedAtOnce

\* the oldest live debounce timer expires: its callback runs flushWrite
TimerFire ==
    /\ timers # <<>>
    /\ FlushEffects([Manager EXCEPT !.timers = Tail(@)], "timer")
    /\ UNCHANGED flushedAtOnce

\* the host runs the oldest queued doWrite
RunDeferredStep(getItemThrows, setItemThrows) ==
    /\ deferred # <<>>
    /\ LET out == doWrite(storage, Head(deferred).history, getItemThrows,
                          setItemThrows)
       IN  /\ storage' = out.storage
           /\ threw' = out.exc
    /\ deferred' = Tail(deferred)
    /\ op' = "doWrite"
    /\ fault' = [getItem |-> getItemThrows, setItem |-> setItemThrows]
    /\ returned' = NoReturn
    /\ UNCHANGED <<impl, recordType, nextId, saved>>
    /\ UNCHANGED <<writeTimeout, pendingWrite, timers, nextTimer, hasIdle,
                   scheduled, burst, burstLasts, replaced, writeLog, syncStorage,
                   flushedAtOnce>>
    /\ UNCHANGED calcVars

\* module load: empty caches, nothing called yet
InitCalc ==
    /\ call = NoCall
    /\ result = Num(0)
    /\ combinationCache = EmptyMap
    /\ permutationCache = EmptyMap
    /\ boxPointsCache = EmptyMap
    /\ keyArgs = EmptyMap
    /\ calls = 0

\* the store and the manager before their first use
InitManager ==
    /\ writeTimeout = 0
    /\ pendingWrite = NoRecord
    /\ timers = <<>>
    /\ nextTimer = 0
    /\ deferred = <<>>
    /\ scheduled = <<>>
    /\ burst = <<>>
    /\ burstLasts = <<>>
    /\ replaced = {}
    /\ writeLog = <<>>
    /\ flushedAtOnce = 0

InitStoreIdle ==
    /\ nextId = 0
    /\ op = "init"
    /\ returned = NoReturn
    /\ threw = FALSE
    /\ fault = NoFault
    /\ saved = <<>>

\* the history store is not used by the calculators
StoreUnused ==
    /\ InitStoreIdle
    /\ InitManager
    /\ impl = "array"
    /\ recordType = "box"
    /\ storage = Absent
    /\ syncStorage = Absent
    /\ hasIdle = TRUE

\* the calculators are not used by the history store
CalcUnused == InitCalc /\ horsePool = {}

\* memoized BOX calculator: the calls of one behaviour use two adjacent counts
InitBox ==
    /\ InitCalc
    /\ StoreUnused
    /\ \E h \in HorseCounts \ {MaxHorseCount} : horsePool = {h, h + 1}

NextBox == CallCalculateBoxPointsMemo

SpecBox == InitBox /\ [][NextBox]_vars

\* unmemoized calculators, called with every argument of the domain
InitCalcAll == InitCalc /\ StoreUnused /\ horsePool = HorseCounts

NextCalc == CallCalculateBoxPoints \/ CallCalculateNagashiPoints

SpecCalc == InitCalcAll /\ [][NextCalc]_vars

\* The details of a box bet: every identifier, every count from 0 to one past
\* the maximum.
InitDetails ==
    /\ InitCalc
    /\ StoreUnused
    /\ horsePool = 0 .. (MaxHorseCount + 1)

NextDetails == CallGetBoxCalculationDetails

SpecDetails == InitDetails /\ [][NextDetails]_vars

\* the store alone, both revisions, from empty storage and without failures
InitStore ==
    /\ CalcUnused
    /\ InitStoreIdle
    /\ InitManager
    /\ impl \in {"array", "map"}
    /\ recordType \in {"box", "formation", "win5"}
    /\ storage = Absent
    /\ syncStorage = Absent
    /\ hasIdle = TRUE

SaveHistory == SaveHistoryStep(MaxSaves, FALSE, FALSE)

GetHistory == GetHistoryStep(FALSE)

NextStore == SaveHistory \/ GetHistory \/ ClearHistory

SpecStore == InitStore /\ [][NextStore]_vars

\* the debounced manager with direct saves, without storage failures
InitMgr ==
    /\ CalcUnused
    /\ InitStoreIdle
    /\ InitManager
    /\ impl = "array"
    /\ recordType \in {"box", "formation"}
    /\ storage = Absent
    /\ syncStorage = Absent
    /\ hasIdle \in BOOLEAN

SaveHistoryDirect == SaveHistoryStep(MaxRecords, FALSE, FALSE)

RunDeferred == RunDeferredStep(FALSE, FALSE)

NextMgr == ScheduleSave \/ FlushWrite \/ TimerFire \/ RunDeferred \/ SaveHistoryDirect

SpecMgr == InitMgr /\ [][NextMgr]_vars

\* The manager in a running event loop: a live debounce timer expires after its
\* 600 ms, and the host runs a queued idle or zero-delay callback.  Calls made
\* by the application (scheduleSave, flushWrite, saveHistory) are not forced.
SpecLive ==
    /\ InitMgr
    /\ [][NextMgr]_vars
    /\ WF_vars(TimerFire)
    /\ WF_vars(RunDeferred)

\* store and manager with storage failures.  The stored value may be anything
\* another writer left under the key.  Storage that is unavailable throws on
\* every access; storage that is full throws on setItem only.
StorageFaults == {NoFault,
                  [getItem |-> FALSE, setItem |-> TRUE],      \* quota exceeded
                  [getItem |-> TRUE, setItem |-> TRUE]}       \* unavailable

InitFail ==
    /\ CalcUnused
    /\ InitManager
    /\ op = "init"
    /\ returned = NoReturn
    /\ threw = FALSE
    /\ fault = NoFault
    /\ impl \in {"array", "map"}
    /\ recordType \in {"box", "formation"}
    /\ hasIdle \in BOOLEAN
    /\ \/ /\ storage \in {Absent, EmptyText, CorruptText, NonArrayJson}
          /\ nextId = 0
          /\ saved = <<>>
       \/ LET first == MakeRecord(1, recordType, impl)     \* an earlier session
          IN  /\ storage = saveHistory(impl, Absent, first, FALSE, FALSE).storage
              /\ nextId = 1
              /\ saved = <<first>>
    /\ syncStorage = storage

GetHistoryFaulty == \E getItemThrows \in BOOLEAN : GetHistoryStep(getItemThrows)

SaveHistoryFaulty ==
    \E met \in StorageFaults : SaveHistoryStep(MaxRecords, met.getItem, met.setItem)

RunDeferredFaulty ==
    \E met \in StorageFaults : RunDeferredStep(met.getItem, met.setItem)

NextFail ==
    \/ GetHistoryFaulty
    \/ SaveHistoryFaulty
    \/ ScheduleSave
    \/ FlushWrite
    \/ TimerFire
    \/ RunDeferredFaulty

SpecFail == InitFail /\ [][NextFail]_vars

-----------------------------------------------------------------------------
(* Exact combinatorics, defined independently of the code's loops *)

\* binomial coefficient by Pascal's rule
RECURSIVE Binomial(_, _)
Binomial(n, r) ==
    IF r < 0 \/ n < 0 \/ r > n THEN 0
    ELSE IF r = 0 \/ r = n THEN 1
    ELSE Binomial(n - 1, r - 1) + Binomial(n - 1, r)

\* number of injective maps 1..r -> 1..n, by choosing the first image
RECURSIVE Falling(_, _)
Falling(n, r) ==
    IF r = 0 THEN 1
    ELSE IF n <= 0 THEN 0
    ELSE n * Falling(n - 1, r - 1)

\* the table of section 4.3
BoxTable(betTypeId, horseCount) ==
    IF horseCount < 1 THEN 0
    ELSE CASE betTypeId \in {"tansho", "fukusho"} -> horseCount
           [] betTypeId \in {"wakuren", "umaren", "wide"} -> Binomial(horseCount, 2)
           [] betTypeId = "umatan" -> Falling(horseCount, 2)
           [] betTypeId = "sanrenpuku" -> Binomial(horseCount, 3)
           [] betTypeId = "sanrentan" -> Falling(horseCount, 3)
           [] OTHER -> 0

\* the worked examples of section 8
BoxExamples == {<<"umaren", 5, 10>>, <<"umatan", 5, 20>>, <<"sanrenpuku", 5, 10>>,
                <<"sanrentan", 5, 60>>, <<"tansho", 7, 7>>}

\* C1: for every bet-type identifier and every horseCount in -1..18,
\* calculateBoxPoints returns a plain non-negative integer equal to the exact
\* table value (0 below 1 horse and for unknown identifiers, n, C(n,2), P(n,2),
\* C(n,3), P(n,3)), and in particular the five worked examples.
C1_BoxPointsExact ==
    call.fn = "calculateBoxPoints" =>
        /\ result.shape = "number"
        /\ result.value \in Nat
        /\ result.value = BoxTable(call.betTypeId, call.horseCount)
        /\ \A e \in BoxExamples :
               (call.betTypeId = e[1] /\ call.horseCount = e[2]) => result.value = e[3]

C1_Witness ==
    /\ call.fn = "calculateBoxPoints"
    /\ call.betTypeId = "sanrentan"
    /\ call.horseCount = MaxHorseCount
    /\ result.value = 4896

\* the table of section 4.4: the normal count
NagashiNormal(betTypeId, axisCount, opponentCount) ==
    IF axisCount < 1 \/ opponentCount < 1 \/ axisCount \notin {1, 2} THEN 0
    ELSE CASE betTypeId \in {"wakuren", "umaren", "wide"} -> opponentCount
           [] betTypeId = "umatan" ->
                IF axisCount = 1 THEN opponentCount ELSE 2 * opponentCount
           [] betTypeId = "sanrenpuku" ->
                IF axisCount = 1 THEN Binomial(opponentCount, 2) ELSE opponentCount
           [] betTypeId = "sanrentan" ->
                IF axisCount = 1 THEN Falling(opponentCount, 2) ELSE opponentCount
           [] OTHER -> 0

\* the table of section 4.4: a {normal, multi} object exactly for the
\* multi-eligible types asked with isMulti, on 1 or 2 axes and >= 1 opponent
NagashiTable(betTypeId, axisCount, opponentCount, isMulti) ==
    LET normal == NagashiNormal(betTypeId, axisCount, opponentCount)
    IN  IF /\ isMulti
           /\ betTypeId \in {"umatan", "sanrentan"}
           /\ axisCount \in {1, 2}
           /\ opponentCount >= 1
        THEN NormalMulti(normal, 2 * normal)
        ELSE Num(normal)

\* C2: calculateNagashiPoints returns exactly the value of the section 4.4
\* table, a plain integer or the {normal, multi} object with multi = 2*normal,
\* and isMulti changes nothing for the types that are not multi-eligible.
C2_NagashiTable ==
    call.fn = "calculateNagashiPoints" =>
        /\ result = NagashiTable(call.betTypeId, call.axisCount,
                                 call.opponentCount, call.isMulti)
        /\ (call.betTypeId \notin {"umatan", "sanrentan"}) =>
               result = calculateNagashiPoints(call.betTypeId, call.axisCount,
                                               call.opponentCount, ~call.isMulti)
        /\ (call.betTypeId = "umaren" /\ call.axisCount = 1
               /\ call.opponentCount = 4) => result = Num(4)

C2_Witness ==
    /\ call.fn = "calculateNagashiPoints"
    /\ call.betTypeId = "sanrentan"
    /\ call.axisCount = 1
    /\ call.opponentCount = 5
    /\ call.isMulti
    /\ result = NormalMulti(20, 40)

\* the unmemoized value of a remembered argument tuple
FreshValue(a) ==
    CASE a.cache = "C" -> combination(a.n, a.r)
      [] a.cache = "P" -> permutation(a.n, a.r)
      [] OTHER -> calculateBoxPoints(a.bet, a.n)

CacheOf(name) ==
    CASE name = "C" -> combinationCache
      [] name = "P" -> permutationCache
      [] OTHER -> boxPointsCache

\* C10: memoization is invisible: a memoized call returns what the unmemoized
\* calculateBoxPoints returns for the same arguments, every cache entry equals
\* the freshly computed value of the arguments that built its key, and no key
\* of a cache was built from two distinct argument tuples.
C10_MemoInvisible ==
    /\ call.fn = "calculateBoxPointsMemo" =>
           result = Num(calculateBoxPoints(call.betTypeId, call.horseCount))
    /\ \A k \in DOMAIN keyArgs :
           /\ \A a \in keyArgs[k] :
                  k \in DOMAIN CacheOf(a.cache) => CacheOf(a.cache)[k] = FreshValue(a)
           /\ \A a, b \in keyArgs[k] : a.cache = b.cache => a = b
    /\ \A name \in {"C", "P", "box"} : DOMAIN CacheOf(name) \subseteq DOMAIN keyArgs

\* a call served by the box cache, and one served by the combination cache
\* that another bet type filled
C10_Witness ==
    /\ call.fn = "calculateBoxPointsMemo"
    /\ call.hit = "C"
    /\ call.betTypeId = "wide"
    /\ call.horseCount = 5
    /\ result.value = 10
    /\ Cardinality(DOMAIN boxPointsCache) = 2

C10_WitnessBoxHit ==
    /\ call.fn = "calculateBoxPointsMemo"
    /\ call.hit = "box"
    /\ call.betTypeId = "sanrentan"
    /\ result.value = 60

-----------------------------------------------------------------------------
(* History store and manager: properties *)

Range(list) == {list[i] : i \in 1..Len(list)}

Reverse(list) == [i \in 1..Len(list) |-> list[Len(list) - i + 1]]

Min(a, b) == IF a < b THEN a ELSE b

\* the ids of the persisted records, first entry first
StoredIds == Ids(storage.items)

\* the newest `n` of the saved records, newest first
NewestFirst(list, n) ==
    [i \in 1..Min(Len(list), n) |-> list[Len(list) - i + 1]]

\* C3: from empty storage and without storage failures, after k saveHistory
\* calls the persisted list holds the most recent min(k, 50) saved records,
\* newest first, and getHistory reads exactly those records back.
C3_NewestFiftyKept ==
    LET got == getHistory(impl, storage, FALSE)
    IN  /\ Len(storage.items) <= MAX_HISTORY_COUNT
        /\ Len(storage.items) = Min(Len(saved), MAX_HISTORY_COUNT)
        /\ StoredIds = Ids(NewestFirst(saved, MAX_HISTORY_COUNT))
        /\ got.isList
        /\ got.list = NewestFirst(saved, MAX_HISTORY_COUNT)

\* 51 saves: 50 records kept, the 51st first, the 1st gone
C3_Witness ==
    /\ op = "saveHistory"
    /\ Len(saved) = MAX_HISTORY_COUNT + 1
    /\ Len(storage.items) = MAX_HISTORY_COUNT
    /\ storage.items[1].id = saved[MAX_HISTORY_COUNT + 1].id
    /\ saved[1].id \notin Range(StoredIds)
    /\ recordType = "formation"
    /\ impl = "map"

FirstStoredId(stored) == IF stored.items = <<>> THEN 0 ELSE stored.items[1].id

\* C5 (as stated): when flushWrite returns right after scheduleSave(record),
\* the persisted list already has that record as its first entry.
C5_FlushWritesSynchronously ==
    [][(op = "scheduleSave" /\ op' = "flushWrite")
          => FirstStoredId(storage') = pendingWrite.id]_vars

\* C5 (amended): flushWrite right after scheduleSave(record) hands the record
\* over at once (pending state cleared, one doWrite queued behind the ones
\* already queued) and leaves storage as it was; the record becomes the first
\* persisted entry when that queued doWrite runs.
C5_FlushQueuesWrite ==
    [][/\ (op = "scheduleSave" /\ op' = "flushWrite")
            => /\ storage' = storage
               /\ pendingWrite' = NoRecord
               /\ writeTimeout' = 0
               /\ Len(deferred') = Len(deferred) + 1
               /\ deferred'[Len(deferred')].history = pendingWrite
               /\ deferred'[Len(deferred')].via
                      = (IF hasIdle THEN "idle" ELSE "timeout")
       /\ (op' = "doWrite" /\ deferred # <<>>)
            => /\ FirstStoredId(storage') = Head(deferred).history.id
               /\ Tail(StoredIds') = StoredIds]_vars

\* the record flushed right after its scheduleSave is first in storage once
\* its doWrite has run
C5_Witness ==
    /\ op = "doWrite"
    /\ flushedAtOnce # 0
    /\ FirstStoredId(storage) = flushedAtOnce
    /\ deferred = <<>>

\* C6: at most one debounce timer started by scheduleSave is live.
C6_SingleTimer == Len(timers) <= 1

NoDuplicates(list) == \A i, j \in 1..Len(list) : list[i] = list[j] => i = j

\* C7: a flushWrite run (by a caller or by the timer) with nothing pending
\* changes neither the manager nor storage; one with a record pending hands
\* exactly that record to writeToStorage and clears the pending state; no
\* record is handed over twice, and every scheduled record was replaced within
\* its burst, is still pending, or was handed over.
C7_FlushIdempotentNoLoss ==
    [][/\ (op' \in {"flushWrite", "timer"} /\ pendingWrite = NoRecord)
            => UNCHANGED <<pendingWrite, writeTimeout, storage, deferred, writeLog>>
       /\ (op' \in {"flushWrite", "timer"} /\ pendingWrite # NoRecord)
            => /\ writeLog' = Append(writeLog, pendingWrite.id)
               /\ deferred' = Append(deferred,
                                     [via |-> IF hasIdle THEN "idle" ELSE "timeout",
                                      history |-> pendingWrite])
               /\ pendingWrite' = NoRecord
               /\ storage' = storage
       /\ NoDuplicates(writeLog')
       /\ \A id \in Range(scheduled') :
              \/ id \in replaced'
              \/ id = pendingWrite'.id
              \/ id \in Range(writeLog')]_vars

\* a flushWrite raced the timer: the record was handed over by the caller's
\* flushWrite, and the timer that fired afterwards found nothing pending
C7_Witness ==
    /\ op = "timer"
    /\ scheduled = <<1>>
    /\ writeLog = <<1>>
    /\ timers = <<>>
    /\ pendingWrite = NoRecord
    /\ flushedAtOnce = 1

\* C8: once every queued doWrite has run, storage equals the storage obtained
\* had each write been made at the moment flushWrite issued it.
C8_DeferredEqualsSynchronous == deferred = <<>> => storage = syncStorage

\* the read of a getHistory run failed: getItem threw, or the text is not JSON
ReadFailed(stored, met) == met.getItem \/ stored.kind = "corrupt"

EmptyList == [isList |-> TRUE, list |-> <<>>]

\* C9 (as stated): no failure is propagated; getHistory returns [] when the
\* key is absent, when the read fails or when the stored value is not a list
\* of records; saveHistory and the deferred write leave the persisted value
\* unchanged when the read or the write fails.
C9_FailureSkipsSave ==
    [][/\ ~threw'
       /\ op' = "getHistory"
            => ((storage.kind \in {"absent", "nonarray"} \/ ReadFailed(storage, fault'))
                   => returned' = EmptyList)
       /\ op' \in {"saveHistory", "doWrite"}
            => ((ReadFailed(storage, fault') \/ fault'.setItem)
                   => storage' = storage)]_vars

\* the record a saveHistory or doWrite step was given
WrittenRecord == IF op' = "doWrite" THEN Head(deferred).history
                 ELSE saved'[Len(saved')]

\* the revision whose getHistory a step runs (doWrite is the "array" one)
RevisionOfStep == IF op' = "doWrite" THEN "array" ELSE impl

\* C9 (amended): no failure is propagated.  getHistory returns [] when the key
\* is absent or holds the empty string, when getItem throws and when the text
\* is not JSON; JSON that is not an array yields [] in the "map" revision and
\* is returned as parsed in the "array" revision.  saveHistory and the deferred
\* write leave the persisted value unchanged when setItem throws, and in the
\* "array" revision when the stored JSON is not an array; a failed read alone
\* is taken as an empty history, so that a write that then succeeds replaces
\* the persisted value by the list of the one new record.
C9_FailureContained ==
    [][/\ ~threw'
       /\ op' = "getHistory"
            => /\ storage' = storage
               /\ (storage.kind \in {"absent", "empty"} \/ ReadFailed(storage, fault'))
                      => returned' = EmptyList
               /\ (storage.kind = "nonarray" /\ ~fault'.getItem)
                      => IF impl = "map" THEN returned' = EmptyList
                         ELSE ~returned'.isList
       /\ op' \in {"saveHistory", "doWrite"}
            => LET treatedAsEmpty ==
                       \/ ReadFailed(storage, fault')
                       \/ storage.kind \in {"absent", "empty"}
                       \/ storage.kind = "nonarray" /\ RevisionOfStep = "map"
               IN  /\ fault'.setItem => storage' = storage
                   /\ (~fault'.setItem /\ treatedAsEmpty)
                          => (storage'.kind = "array" /\ StoredIds' = <<WrittenRecord.id>>)
                   /\ (~fault'.setItem /\ ~treatedAsEmpty /\ storage.kind = "nonarray")
                          => storage' = storage
                   /\ (~fault'.setItem /\ ~treatedAsEmpty /\ storage.kind = "array")
                          => StoredIds' = <<WrittenRecord.id>> \o StoredIds]_vars

\* unparseable text under the key: getHistory reports an empty history
C9_WitnessCorruptRead ==
    /\ op = "getHistory"
    /\ storage = CorruptText
    /\ returned = EmptyList
    /\ ~threw

\* the write of a deferred save failed: the new record is skipped, storage is
\* as before
C9_Witness ==
    /\ op = "doWrite"
    /\ fault.setItem
    /\ ~threw
    /\ writeLog = <<2>>
    /\ deferred = <<>>
    /\ StoredIds = <<1>>

-----------------------------------------------------------------------------
(* C11: getBoxCalculationDetails.                                             *)

\* the count lies in [getMinimumHorseCount(betType), 18]
InRange(betTypeId, horseCount) ==
    /\ horseCount >= getMinimumHorseCount(betTypeId)
    /\ horseCount <= MaxHorseCount

\* the text is one of the formula templates and ends with the given points
StatesPoints(formula, horseCount, points) ==
    \E symbol \in {"tou", "C2", "P2", "C3", "P3"} :
        formula = ToString(horseCount) \o symbol \o " = "
                      \o ToString(points) \o "ten"

DetailsCalled == call.fn = "getBoxCalculationDetails"

\* C11: for each of the 8 table rows and an unknown identifier and every
\* horseCount in 0..19, getBoxCalculationDetails returns isValid = false
\* exactly when horseCount is outside [getMinimumHorseCount(betType), 18], and
\* then points = 0 and formula = ""; otherwise isValid = true, points =
\* calculateBoxPoints(betType, horseCount) and the formula is a non-empty
\* formatted string that states those points.
C11_DetailsContract ==
    DetailsCalled =>
        /\ result.isValid = InRange(call.betTypeId, call.horseCount)
        /\ ~result.isValid => (result.points = 0 /\ result.formula = "")
        /\ result.isValid =>
               /\ result.points =
                      calculateBoxPoints(call.betTypeId, call.horseCount)
               /\ result.formula # ""
               /\ StatesPoints(result.formula, call.horseCount, result.points)

\* C11 on the 8 table rows alone: there the whole contract holds, with the
\* points of the closed-form table.
C11_TableRowsContract ==
    (DetailsCalled /\ call.betTypeId \in BET_TYPES) =>
        /\ result.isValid = InRange(call.betTypeId, call.horseCount)
        /\ ~result.isValid => (result.points = 0 /\ result.formula = "")
        /\ result.isValid =>
               /\ result.points = BoxTable(call.betTypeId, call.horseCount)
               /\ StatesPoints(result.formula, call.horseCount, result.points)

\* C11 on an unknown identifier: the validity and the points are as stated,
\* the formula and the description are empty whatever the count.
C11_UnknownEmptyFormula ==
    (DetailsCalled /\ call.betTypeId \notin BET_TYPES) =>
        /\ result.isValid = InRange(call.betTypeId, call.horseCount)
        /\ result.points = 0
        /\ result.formula = ""
        /\ result.isValid => result.description = ""

\* an unknown identifier with a count in range: valid, no points, no formula
C11_WitnessUnknown ==
    /\ DetailsCalled
    /\ call.betTypeId = "w"
    /\ call.horseCount = 5
    /\ result = Details(0, "", "", TRUE)

\* the example of the specification: umaren with 5 horses
C11_WitnessExample ==
    /\ DetailsCalled
    /\ call.betTypeId = "umaren"
    /\ call.horseCount = 5
    /\ result = Details(10, "5C2 = 10ten", "5tou kara 2 tou no kumiawase", TRUE)

-----------------------------------------------------------------------------
(* C12: liveness of the debounced writer.                                     *)

Persisted(id) == id \in Range(StoredIds)

\* no record pending, and the last record given to scheduleSave is stored
IdleWithLastStored ==
    /\ pendingWrite = NoRecord
    /\ scheduled # <<>> => Persisted(scheduled[Len(scheduled)])

\* every record given to scheduleSave is eventually an entry of the stored
\* list, unless a later scheduleSave replaced it while it was pending
C12_ScheduledPersisted ==
    \A id \in 1..MaxRecords :
        (id \in Range(scheduled)) ~> (Persisted(id) \/ id \in replaced)

\* once scheduleSave is called no more, the manager ends up idle for good
\* with the last scheduled record stored
C12_QuiescentIdle ==
    <>[][~ScheduleSave]_vars => <>[]IdleWithLastStored

\* C12: with timers and deferred callbacks that eventually run and a storage
\* that does not fail, every record passed to scheduleSave is eventually
\* persisted unless a later scheduleSave replaced it while it was pending, and
\* once no further scheduleSave occurs the manager eventually returns to the
\* idle state with the last scheduled record stored.
C12_DebouncedWriterLive == C12_ScheduledPersisted /\ C12_QuiescentIdle

\* the debounce timer, not a flushWrite call, wrote the second record after it
\* had replaced the first; the manager is idle again
C12_Witness ==
    /\ scheduled = <<1, 2>>
    /\ replaced = {1}
    /\ writeLog = <<2>>
    /\ burstLasts = <<2>>
    /\ flushedAtOnce = 0
    /\ op = "doWrite"
    /\ ~threw
    /\ pendingWrite = NoRecord
    /\ timers = <<>>
    /\ deferred = <<>>
    /\ Persisted(2)
    /\ ~Persisted(1)

====
